---- MODULE Spec2Model ----
(***************************************************************************)
(* The inventory system of cleaned_inventory_system.py as a state machine. *)
(* The program state is the module-level dict stock_data; the environment  *)
(* is the one JSON file that load_data and save_data open.  Every          *)
(* operation is one action; the action also records the call (its name,    *)
(* arguments, result, any exception that left it, and the ledger as it was *)
(* before the call) so that the contracts are state predicates.            *)
(***************************************************************************)
EXTENDS Integers, Sequences, FiniteSets, TLC

\* Largest magnitude a stored quantity may reach in the model (guard of add_item).
MaxQty == 2

\* def check_low_items(threshold: int = 5)
DefaultThreshold == 5

Names == {"apple", "pear"}

(***************************************************************************)
(* Python values.  A float n + 0.5 is PyFloat(n); one text value stands    *)
(* for every str.                                                          *)
(***************************************************************************)
PyInt(n) == [t |-> "int", n |-> n]
PyFloat(n) == [t |-> "float", n |-> n]
PyStr == [t |-> "str", n |-> 0]
PyNone == [t |-> "NoneType", n |-> 0]
PyBool(b) == [t |-> "bool", n |-> IF b THEN 1 ELSE 0]

\* An item argument: a str (possibly empty) or, as in main, the int 123.
Text(s) == [t |-> "str", s |-> s]
NonText == [t |-> "int", s |-> "123"]

\* The outcome of evaluating an expression: a value, or an exception class.
Ok(v) == [exc |-> "", val |-> v]
Raise(e) == [exc |-> e, val |-> PyNone]

(***************************************************************************)
(* dict, in insertion order: a sequence of entries with distinct keys.     *)
(***************************************************************************)
Keys(d) == {d[i].k : i \in DOMAIN d}

IndexOf(d, k) == CHOOSE i \in DOMAIN d : d[i].k = k

\* item in stock_data (an int never equals a str key)
Contains(d, item) == item.t = "str" /\ item.s \in Keys(d)

\* stock_data[k]
DictGet(d, k) == d[IndexOf(d, k)].v

\* stock_data.get(k, default)
DictGetDefault(d, k, default) == IF k \in Keys(d) THEN DictGet(d, k) ELSE default

\* stock_data[k] = v : an existing key keeps its position
DictSet(d, k, v) ==
    IF k \in Keys(d) THEN [d EXCEPT ![IndexOf(d, k)].v = v]
    ELSE Append(d, [k |-> k, v |-> v])

\* del stock_data[k]
DictDel(d, k) == SelectSeq(d, LAMBDA e : e.k # k)

(***************************************************************************)
(* Python arithmetic on a stored value and an int.                         *)
(***************************************************************************)
\* PyAdd with the stored quantity dropped: stock_data[item] = quantity
PyAdd_Overwrite(a, q) == Ok(PyInt(q.n))

\* a + q, q an int
PyAdd(a, q) ==
    CASE a.t = "int" -> Ok(PyInt(a.n + q.n))
      [] a.t = "float" -> Ok(PyFloat(a.n + q.n))
      [] OTHER -> Raise("TypeError")

\* a - q, q an int
PySub(a, q) ==
    CASE a.t = "int" -> Ok(PyInt(a.n - q.n))
      [] a.t = "float" -> Ok(PyFloat(a.n - q.n))
      [] OTHER -> Raise("TypeError")

\* PyLeZero with < for <=
PyLeZero_Strict(a) == a.n < 0

\* a <= 0   (n + 0.5 <= 0 iff n < 0)
PyLeZero(a) ==
    CASE a.t = "int" -> a.n <= 0
      [] a.t = "float" -> a.n < 0
      [] OTHER -> FALSE

\* PyLt with <= for <
PyLt_OrEqual(a, th) ==
    CASE a.t = "int" -> Ok(PyBool(a.n <= th))
      [] a.t = "float" -> Ok(PyBool(a.n < th))
      [] OTHER -> Raise("TypeError")

\* a < th, th an int   (n + 0.5 < th iff n < th)
PyLt(a, th) ==
    CASE a.t \in {"int", "float"} -> Ok(PyBool(a.n < th))
      [] OTHER -> Raise("TypeError")

(***************************************************************************)
(* JSON documents.  A JSON number is an integer literal or a literal with  *)
(* a fraction (n.5); an object is its members in textual order, where a    *)
(* name may occur more than once.                                          *)
(***************************************************************************)
JInt(n) == [j |-> "integer", n |-> n]
JReal(n) == [j |-> "real", n |-> n]
JString == [j |-> "string", n |-> 0]
JNull == [j |-> "null", n |-> 0]

\* JsonEncode with every number written as a string
JsonEncode_Quoted(v) == IF v.t = "NoneType" THEN JNull ELSE JString

\* json.dump of one value
JsonEncode(v) ==
    CASE v.t = "int" -> JInt(v.n)
      [] v.t = "float" -> JReal(v.n)
      [] v.t = "str" -> JString
      [] OTHER -> JNull

\* json.load of one value
JsonDecode(x) ==
    CASE x.j = "integer" -> PyInt(x.n)
      [] x.j = "real" -> PyFloat(x.n)
      [] x.j = "string" -> PyStr
      [] OTHER -> PyNone

\* json.dump(stock_data, file, indent=4): one member per entry, in dict order
JsonDump(d) == [i \in DOMAIN d |-> [k |-> d[i].k, v |-> JsonEncode(d[i].v)]]

\* json.load of an object: members are inserted in order, a repeated name
\* overwrites the value of the first occurrence
RECURSIVE JsonLoadFrom(_, _)
JsonLoadFrom(pairs, d) ==
    IF pairs = <<>> THEN d
    ELSE JsonLoadFrom(Tail(pairs), DictSet(d, Head(pairs).k, JsonDecode(Head(pairs).v)))

JsonLoad(pairs) == JsonLoadFrom(pairs, <<>>)

(***************************************************************************)
(* The file on disk: absent, not accessible to this process, or holding    *)
(* some bytes.                                                             *)
(***************************************************************************)
NoPairs == <<>>
File(kind) == [kind |-> kind, pairs |-> NoPairs]
ObjectFile(pairs) == [kind |-> "object", pairs |-> pairs]

\* What open(filename, 'r', encoding='utf-8') followed by json.load raises.
ReadFails(f) ==
    CASE f.kind = "missing" -> "FileNotFoundError"
      [] f.kind = "denied" -> "PermissionError"
      [] f.kind = "badutf8" -> "UnicodeDecodeError"
      [] f.kind = "malformed" -> "JSONDecodeError"
      [] OTHER -> ""

\* The base classes of the exception classes raised here.
IsOSError(e) == e \in {"OSError", "FileNotFoundError", "PermissionError"}
IsValueError(e) == e \in {"ValueError", "JSONDecodeError", "UnicodeDecodeError"}

\* except (FileNotFoundError, json.JSONDecodeError, IOError)
LoadCatches(e) == e = "FileNotFoundError" \/ e = "JSONDecodeError" \/ IsOSError(e)

\* except IOError
SaveCatches(e) == IsOSError(e)

\* except (KeyError, ValueError)
RemoveCatches(e) == e = "KeyError" \/ IsValueError(e)

(***************************************************************************)
(* State                                                                   *)
(***************************************************************************)
VARIABLES
    stock_data,   \* the module-level dict
    file,         \* the file named by filename
    op,           \* the last call
    arg_item,     \* its item argument
    arg_qty,      \* its quantity / threshold argument
    logs_in,      \* the logs argument as passed
    logs_out,     \* the caller's list after the call
    pre_stock,    \* stock_data when the call began
    ret,          \* the value returned
    low_items,    \* the list check_low_items returned
    raised,       \* the exception class that left the call, "" if none
    stdout,       \* what print_data printed
    prev_saved,   \* the call before the last one was a save_data that returned True
    added,        \* per item, the sum of the quantities valid adds added
    pure_adds     \* stock_data has been changed by add_item only

vars == <<stock_data, file, op, arg_item, arg_qty, logs_in, logs_out, pre_stock,
          ret, low_items, raised, stdout, prev_saved, added, pure_adds>>

NoItem == Text("")
NoLogs == [given |-> FALSE, list |-> <<>>]
Logs(l) == [given |-> TRUE, list |-> l]
NoSums == [k \in Names |-> 0]

\* f"{datetime.now()}: Added {quantity} of {item}"
LogMessage(item, quantity) == [item |-> item.s, qty |-> quantity]

Init ==
    /\ stock_data = <<>>
    /\ file = File("missing")
    /\ op = "init"
    /\ arg_item = NoItem
    /\ arg_qty = PyNone
    /\ logs_in = NoLogs
    /\ logs_out = NoLogs
    /\ pre_stock = <<>>
    /\ ret = PyNone
    /\ low_items = <<>>
    /\ raised = ""
    /\ stdout = <<>>
    /\ prev_saved = FALSE
    /\ added = NoSums
    /\ pure_adds = TRUE

\* What every call records.
Called(name, item, quantity, result, exc) ==
    /\ op' = name
    /\ arg_item' = item
    /\ arg_qty' = quantity
    /\ pre_stock' = stock_data
    /\ ret' = result
    /\ raised' = exc
    /\ prev_saved' = (op = "save_data" /\ ret = PyBool(TRUE))

\* stock_data is changed by something other than a valid add
NotOnlyAdds == pure_adds' = FALSE /\ added' = NoSums

(***************************************************************************)
(* add_item                                                                *)
(***************************************************************************)
\* AddRejects without the check for a negative quantity
AddRejects_NoNegativeCheck(item, quantity) ==
    \/ item.s = "" \/ item.t # "str"
    \/ quantity.t # "int"

\* The three early returns of add_item.
AddRejects(item, quantity) ==
    \/ item.s = "" \/ item.t # "str"
    \/ quantity.t # "int"
    \/ quantity.n < 0

AddItem(item, quantity, logs) ==
    LET sum == PyAdd(DictGetDefault(stock_data, item.s, PyInt(0)), quantity)
        local == IF logs.given THEN logs.list ELSE <<>>
    IN  /\ logs_in' = logs
        /\ UNCHANGED file /\ low_items' = <<>> /\ stdout' = <<>>
        /\ IF AddRejects(item, quantity)
           THEN /\ Called("add_item", item, quantity, PyNone, "")
                /\ logs_out' = logs
                /\ UNCHANGED <<stock_data, added, pure_adds>>
           ELSE IF sum.exc # ""
           THEN /\ Called("add_item", item, quantity, PyNone, sum.exc)
                /\ logs_out' = logs
                /\ UNCHANGED <<stock_data, added, pure_adds>>
           ELSE /\ sum.val.n <= MaxQty
                /\ Called("add_item", item, quantity, PyNone, "")
                /\ stock_data' = DictSet(stock_data, item.s, sum.val)
                /\ logs_out' = [logs EXCEPT !.list =
                                   IF logs.given
                                   THEN Append(local, LogMessage(item, quantity.n))
                                   ELSE <<>>]
                /\ IF pure_adds
                   THEN added' = [added EXCEPT ![item.s] = @ + quantity.n]
                   ELSE added' = added
                /\ UNCHANGED pure_adds

(***************************************************************************)
(* remove_item                                                             *)
(***************************************************************************)
\* RemoveRejects with < for <=
RemoveRejects_AllowsZero(d, item, quantity) ==
    \/ ~Contains(d, item)
    \/ quantity.t # "int" \/ quantity.n < 0

\* The two early returns of remove_item.
RemoveRejects(d, item, quantity) ==
    \/ ~Contains(d, item)
    \/ quantity.t # "int" \/ quantity.n <= 0

RemoveItem(item, quantity) ==
    LET diff == PySub(DictGet(stock_data, item.s), quantity)
    IN  /\ UNCHANGED file /\ low_items' = <<>> /\ stdout' = <<>>
        /\ logs_in' = NoLogs /\ logs_out' = NoLogs
        /\ IF RemoveRejects(stock_data, item, quantity)
           THEN /\ Called("remove_item", item, quantity, PyBool(FALSE), "")
                /\ UNCHANGED <<stock_data, added, pure_adds>>
           ELSE IF diff.exc # ""
           THEN /\ IF RemoveCatches(diff.exc)
                   THEN Called("remove_item", item, quantity, PyBool(FALSE), "")
                   ELSE Called("remove_item", item, quantity, PyNone, diff.exc)
                /\ UNCHANGED <<stock_data, added, pure_adds>>
           ELSE /\ Called("remove_item", item, quantity, PyBool(TRUE), "")
                /\ stock_data' = IF PyLeZero(diff.val)
                                 THEN DictDel(stock_data, item.s)
                                 ELSE DictSet(stock_data, item.s, diff.val)
                /\ NotOnlyAdds

(***************************************************************************)
(* get_quantity                                                            *)
(***************************************************************************)
GetQuantity(item) ==
    /\ UNCHANGED <<stock_data, file, added, pure_adds>> /\ low_items' = <<>> /\ stdout' = <<>>
    /\ logs_in' = NoLogs /\ logs_out' = NoLogs
    /\ IF ~Contains(stock_data, item)
       THEN Called("get_quantity", item, PyNone, PyNone, "")
       ELSE Called("get_quantity", item, PyNone, DictGet(stock_data, item.s), "")

(***************************************************************************)
(* check_low_items                                                         *)
(***************************************************************************)
\* The loop over stock_data.items(), from entry i on, low_items being acc.
RECURSIVE LowScan(_, _, _, _)
LowScan(d, i, threshold, acc) ==
    IF i > Len(d) THEN [exc |-> "", list |-> acc]
    ELSE LET lt == PyLt(d[i].v, threshold)
         IN  IF lt.exc # "" THEN [exc |-> lt.exc, list |-> <<>>]
             ELSE LowScan(d, i + 1, threshold,
                          IF lt.val = PyBool(TRUE) THEN Append(acc, d[i].k) ELSE acc)

CheckLowItems(threshold) ==
    LET scan == LowScan(stock_data, 1, threshold, <<>>)
    IN  /\ UNCHANGED <<stock_data, file, added, pure_adds>>
        /\ stdout' = <<>>
        /\ logs_in' = NoLogs /\ logs_out' = NoLogs
        /\ low_items' = scan.list
        /\ Called("check_low_items", NoItem, PyInt(threshold),
                  IF scan.exc = "" THEN [t |-> "list", n |-> Len(scan.list)] ELSE PyNone,
                  scan.exc)

(***************************************************************************)
(* print_data                                                              *)
(***************************************************************************)
Line(s) == [s |-> s, v |-> PyNone]

\* f"{item_name} -> {quantity}"
Row(e) == [s |-> e.k, v |-> e.v]

Report(d) ==
    IF d = <<>> THEN <<Line("No items in inventory.")>>
    ELSE <<Line("Inventory Report:"), Line("--------------------")>>
         \o [i \in DOMAIN d |-> Row(d[i])]
         \o <<Line("--------------------")>>

PrintData ==
    /\ UNCHANGED <<stock_data, file, added, pure_adds>>
    /\ low_items' = <<>>
    /\ logs_in' = NoLogs /\ logs_out' = NoLogs
    /\ stdout' = Report(stock_data)
    /\ Called("print_data", NoItem, PyNone, PyNone, "")

(***************************************************************************)
(* save_data                                                               *)
(***************************************************************************)
\* What the environment lets open(filename, 'w') and the write do: the write
\* succeeds, open raises, or the write raises after open truncated the file.
\* A file this process may not access can be neither read nor written.
SaveOutcomes == {"ok", "open_fails", "write_fails"}

SaveData(outcome) ==
    /\ file.kind = "denied" => outcome = "open_fails"
    /\ UNCHANGED <<stock_data, added, pure_adds>> /\ low_items' = <<>> /\ stdout' = <<>>
    /\ logs_in' = NoLogs /\ logs_out' = NoLogs
    /\ file' = CASE outcome = "ok" -> ObjectFile(JsonDump(stock_data))
                 [] outcome = "open_fails" -> file
                 [] OTHER -> File("malformed")
    /\ LET exc == IF outcome = "ok" THEN ""
                  ELSE IF outcome = "open_fails" THEN "PermissionError" ELSE "OSError"
       IN  IF exc = "" THEN Called("save_data", NoItem, PyNone, PyBool(TRUE), "")
           ELSE IF SaveCatches(exc)
           THEN Called("save_data", NoItem, PyNone, PyBool(FALSE), "")
           ELSE Called("save_data", NoItem, PyNone, PyNone, exc)

(***************************************************************************)
(* load_data                                                               *)
(***************************************************************************)
LoadData ==
    LET exc == ReadFails(file)
    IN  /\ UNCHANGED file /\ low_items' = <<>> /\ stdout' = <<>>
        /\ logs_in' = NoLogs /\ logs_out' = NoLogs
        /\ IF exc # ""
           THEN /\ IF LoadCatches(exc)
                   THEN Called("load_data", NoItem, PyNone, PyBool(FALSE), "")
                   ELSE Called("load_data", NoItem, PyNone, PyNone, exc)
                /\ UNCHANGED <<stock_data, added, pure_adds>>
           ELSE IF file.kind = "object"
           THEN /\ stock_data' = JsonLoad(file.pairs)
                /\ Called("load_data", NoItem, PyNone, PyBool(TRUE), "")
                /\ NotOnlyAdds
           ELSE /\ Called("load_data", NoItem, PyNone, PyBool(FALSE), "")
                /\ UNCHANGED <<stock_data, added, pure_adds>>

(***************************************************************************)
(* The environment: something else puts a file at filename.                *)
(***************************************************************************)
FileValues == {JInt(-1), JInt(1), JReal(1), JString}
Member(k, v) == [k |-> k, v |-> v]
FileObjects ==
    {<<>>, <<Member("apple", JInt(1)), Member("apple", JInt(-1))>>}
    \cup {<<Member("apple", v)>> : v \in FileValues}
    \cup {<<Member("pear", v), Member("apple", JInt(1))>> : v \in FileValues}
FileContents ==
    {File(k) : k \in {"missing", "denied", "badutf8", "malformed", "array", "scalar"}}
    \cup {ObjectFile(p) : p \in FileObjects}

ExternalWrite(content) ==
    /\ file' = content
    /\ op' = "external_write"
    /\ arg_item' = NoItem /\ arg_qty' = PyNone
    /\ logs_in' = NoLogs /\ logs_out' = NoLogs
    /\ pre_stock' = stock_data
    /\ ret' = PyNone /\ raised' = ""
    /\ prev_saved' = FALSE
    /\ UNCHANGED <<stock_data, added, pure_adds>> /\ low_items' = <<>> /\ stdout' = <<>>

(***************************************************************************)
(* Specifications                                                          *)
(***************************************************************************)
ItemArgs == {Text(n) : n \in Names} \cup {Text(""), NonText}
QtyArgs == {PyInt(n) : n \in -1 .. MaxQty} \cup {PyFloat(1)}
LogArgs == {NoLogs, Logs(<<LogMessage(Text("pear"), 1)>>)}
Thresholds == {1, MaxQty, DefaultThreshold}

\* The calls that touch only the ledger.
NextLedger ==
    \/ \E item \in ItemArgs, quantity \in QtyArgs, logs \in LogArgs :
          AddItem(item, quantity, logs)
    \/ \E item \in ItemArgs, quantity \in QtyArgs : RemoveItem(item, quantity)
    \/ \E item \in ItemArgs : GetQuantity(item)
    \/ \E threshold \in Thresholds : CheckLowItems(threshold)
    \/ PrintData

SpecLedger == Init /\ [][NextLedger]_vars

\* ... and the file, which nothing but this process writes.
NextPersist ==
    \/ NextLedger
    \/ \E outcome \in SaveOutcomes : SaveData(outcome)
    \/ LoadData

SpecPersist == Init /\ [][NextPersist]_vars

\* The ledger, and a file that anything may have written.
Next ==
    \/ NextLedger
    \/ LoadData
    \/ \E content \in FileContents : ExternalWrite(content)

Spec == Init /\ [][Next]_vars

(***************************************************************************)
(* check_low_items as a function of the ledger and the threshold: every    *)
(* ledger below is one that add_item calls build from the empty ledger.    *)
(***************************************************************************)
LowNames == {"apple", "banana", "pear"}
LowQtys == {2, 5, 7}
LowThresholds == {0, 2, DefaultThreshold, 7}
LowEntry == {[k |-> k, v |-> PyInt(q)] : k \in LowNames, q \in LowQtys}
LowLedgers ==
    {<<>>} \cup {<<e>> : e \in LowEntry}
    \cup {p \in LowEntry \X LowEntry : p[1].k # p[2].k}
    \cup {p \in LowEntry \X LowEntry \X LowEntry :
              Cardinality({p[1].k, p[2].k, p[3].k}) = 3}

InitLow ==
    /\ stock_data \in LowLedgers
    /\ file = File("missing")
    /\ op = "init"
    /\ arg_item = NoItem
    /\ arg_qty = PyNone
    /\ logs_in = NoLogs
    /\ logs_out = NoLogs
    /\ pre_stock = stock_data
    /\ ret = PyNone
    /\ low_items = <<>>
    /\ raised = ""
    /\ stdout = <<>>
    /\ prev_saved = FALSE
    /\ added = NoSums
    /\ pure_adds = FALSE

NextLow == \E threshold \in LowThresholds : CheckLowItems(threshold)

SpecLow == InitLow /\ [][NextLow]_vars

(***************************************************************************)
(* The contracts                                                           *)
(***************************************************************************)
True == PyBool(TRUE)
False == PyBool(FALSE)

\* The quantity d holds for k, 0 when it holds none.
QuantityOf(d, k) == IF k \in Keys(d) THEN DictGet(d, k).n ELSE 0

\* Every entry but k's is in d and e alike.
OthersSame(d, e, k) ==
    \A x \in (Keys(d) \cup Keys(e)) \ {k} :
        x \in Keys(d) /\ x \in Keys(e) /\ DictGet(d, x) = DictGet(e, x)

\* C1: in every state add_item and remove_item calls reach from the empty
\* ledger, no entry of the ledger has a quantity <= 0.
C1_NoEntryAtOrBelowZero ==
    \A i \in DOMAIN stock_data : stock_data[i].v.n > 0

InvalidAddCall ==
    /\ op = "add_item"
    /\ \/ arg_item.t # "str" \/ arg_item.s = ""
       \/ arg_qty.t # "int" \/ arg_qty.n < 0

\* C2: add_item with an empty or non-text item, a non-integer quantity or a
\* negative quantity leaves the ledger and the caller's log list as they were
\* and returns None without raising.
C2_InvalidAddChangesNothing ==
    InvalidAddCall =>
        /\ stock_data = pre_stock
        /\ logs_out = logs_in
        /\ ret = PyNone
        /\ raised = ""

C2_Witness ==
    /\ InvalidAddCall
    /\ arg_item = Text("apple")
    /\ arg_qty = PyInt(-1)
    /\ Contains(stock_data, Text("apple"))
    /\ logs_in.given /\ logs_in.list # <<>>

ValidAddCall ==
    /\ op = "add_item"
    /\ arg_item.t = "str" /\ arg_item.s # ""
    /\ arg_qty.t = "int" /\ arg_qty.n >= 0

\* C3: add_item(item, q) with a non-empty text item and an integer q >= 0 sets
\* the item's quantity to its previous quantity (0 if absent) plus q and changes
\* no other entry; and while only valid adds have changed the ledger,
\* get_quantity(item) is the sum of the quantities added for the item.
C3_AddAccumulates ==
    /\ ValidAddCall =>
          /\ raised = "" /\ ret = PyNone
          /\ arg_item.s \in Keys(stock_data)
          /\ DictGet(stock_data, arg_item.s)
                = PyInt(QuantityOf(pre_stock, arg_item.s) + arg_qty.n)
          /\ OthersSame(pre_stock, stock_data, arg_item.s)
    /\ (op = "get_quantity" /\ pure_adds /\ arg_item.t = "str" /\ arg_item.s \in Names) =>
          /\ raised = ""
          /\ ret # PyNone => ret = PyInt(added[arg_item.s])
          /\ ret = PyNone => (added[arg_item.s] = 0 /\ arg_item.s \notin Keys(stock_data))

C3_Witness ==
    /\ ValidAddCall
    /\ pure_adds
    /\ Contains(pre_stock, arg_item)
    /\ arg_qty.n = 1
    /\ added[arg_item.s] = 2
    /\ DictGet(stock_data, arg_item.s) = PyInt(2)
    /\ Len(stock_data) = 2

RemovableCall ==
    /\ op = "remove_item"
    /\ Contains(pre_stock, arg_item)
    /\ DictGet(pre_stock, arg_item.s).t = "int"
    /\ arg_qty.t = "int" /\ arg_qty.n > 0

\* C4: remove_item(item, q) of a present item with stored integer quantity s and
\* a positive integer q returns True; the entry is deleted if s - q <= 0 and
\* holds s - q otherwise; no other entry changes; and get_quantity of an item
\* the ledger does not hold returns None.
C4_RemoveDecrementsOrDeletes ==
    /\ RemovableCall =>
          LET left == DictGet(pre_stock, arg_item.s).n - arg_qty.n
          IN  /\ ret = True /\ raised = ""
              /\ left <= 0 => ~Contains(stock_data, arg_item)
              /\ left > 0 => /\ Contains(stock_data, arg_item)
                             /\ DictGet(stock_data, arg_item.s) = PyInt(left)
              /\ OthersSame(pre_stock, stock_data, arg_item.s)
    /\ (op = "get_quantity" /\ ~Contains(stock_data, arg_item)) =>
          (ret = PyNone /\ raised = "")

C4_Witness ==
    /\ RemovableCall
    /\ Len(pre_stock) = 2
    /\ DictGet(pre_stock, arg_item.s) = PyInt(1)
    /\ arg_qty = PyInt(2)
    /\ ~Contains(stock_data, arg_item)
    /\ Len(stock_data) = 1

RejectedRemoveCall ==
    /\ op = "remove_item"
    /\ \/ ~Contains(pre_stock, arg_item)
       \/ arg_qty.t # "int" \/ arg_qty.n <= 0

\* C5: remove_item returns False and leaves the ledger unchanged when the item
\* is absent or the quantity is not a positive integer.
C5_RejectedRemoveChangesNothing ==
    RejectedRemoveCall =>
        /\ ret = False
        /\ raised = ""
        /\ stock_data = pre_stock

C5_Witness ==
    /\ RejectedRemoveCall
    /\ Contains(pre_stock, arg_item)
    /\ arg_qty = PyInt(0)
    /\ ret = False

\* C6: load_data right after a save_data that returned True returns True and
\* leaves the ledger as it was before the save: the same keys with the same
\* quantities (and in the same order).
C6_SaveLoadRoundTrip ==
    (op = "load_data" /\ prev_saved) =>
        /\ ret = True
        /\ raised = ""
        /\ stock_data = pre_stock

C6_Witness ==
    /\ op = "load_data" /\ prev_saved
    /\ Len(stock_data) = 2
    /\ \E i \in DOMAIN stock_data : stock_data[i].v = PyInt(MaxQty)
    /\ ret = True

\* C7: a load_data that fails (file missing or unreadable, content that is not
\* a JSON document, JSON root not an object) returns False and leaves the
\* ledger as it was.
C7_FailedLoadReturnsFalse ==
    (op = "load_data" /\ file.kind # "object") =>
        /\ ret = False
        /\ raised = ""
        /\ stock_data = pre_stock

\* C8: after any load_data call every entry of the ledger is a non-negative
\* integer quantity.
C8_LoadedLedgerIsValid ==
    op = "load_data" =>
        \A i \in DOMAIN stock_data :
            stock_data[i].v.t = "int" /\ stock_data[i].v.n >= 0

\* C9: no call lets an exception reach its caller.
C9_NothingPropagates == raised = ""

\* C10: check_low_items(threshold) returns exactly the items whose quantity is
\* strictly below the threshold, each once, in the ledger's order, and leaves
\* the ledger unchanged.
C10_LowItemsExact ==
    op = "check_low_items" =>
        /\ raised = ""
        /\ stock_data = pre_stock
        /\ {low_items[i] : i \in DOMAIN low_items}
              = {stock_data[i].k : i \in {j \in DOMAIN stock_data :
                                             stock_data[j].v.n < arg_qty.n}}
        /\ \A i, j \in DOMAIN low_items :
              i < j => IndexOf(stock_data, low_items[i]) < IndexOf(stock_data, low_items[j])

C10_Witness ==
    /\ op = "check_low_items"
    /\ arg_qty = PyInt(DefaultThreshold)
    /\ stock_data = << [k |-> "apple", v |-> PyInt(7)],
                       [k |-> "banana", v |-> PyInt(5)],
                       [k |-> "pear", v |-> PyInt(2)] >>
    /\ low_items = <<"pear">>

====
